---- MODULE Spec2Model ----
(***************************************************************************)
(* safe_user: bearer-token authentication core.                            *)
(*   src/src/auth.rs      generate_jwt, validate_jwt, jwt_validator        *)
(*   src/src/handlers.rs  create_jwt_for_user, get_all_users,              *)
(*                        protected_route                                  *)
(*   src/src/main.rs      the routes and the /protected scope              *)
(* The jsonwebtoken calls (encode, decode, Header::default,                *)
(* Validation::default) are modelled by what the crate (8.x/9.x) does:     *)
(* three base64url segments, HMAC over "header.payload", the signature     *)
(* compared as text, exp checked with the default leeway of 60 seconds.    *)
(* The HMAC is ideal: two signature texts are equal exactly when algorithm,*)
(* key and message are equal and no character was changed.                 *)
(* Spec serves the requests to /protected one at a time; /get_jwt, the     *)
(* clock and a restart with another JWT_SECRET interleave with them.       *)
(***************************************************************************)
EXTENDS Integers, Sequences, FiniteSets, TLC

\* ---------------------------------------------------------------- constants
\* Duration::hours(24), in the seconds of Claims.exp.
Lifetime == 86400
\* Validation::default().leeway, in seconds.
Leeway == 60

\* ------------------------------------------------------------------- bounds
\* The epoch second at which the model's clock starts.
Epoch0 == 1700000000
\* Characters of a signature text (43 for HS256 in the crate).
MacLen == 2
\* Ways to change one character of a signature text.
MaxDelta == 1

\* env::var("JWT_SECRET") is Err: the variable is not set.
Unset == "<unset>"
\* The values JWT_SECRET takes in a deployment.
EnvValues == {Unset, "k1"}
\* The keys a token may have been signed with.
Keys == {"secret", "k1"}
\* The subjects /get_jwt is asked for (User.id), the empty string included.
Subjects == {"", "u1"}
\* User.id is None.
NoId == "<none>"
\* The clock values the model visits: issue instant, exp, exp+1, exp+leeway,
\* exp+leeway+1 of a token issued at Epoch0.
Instants ==
    {Epoch0, Epoch0 + Lifetime, Epoch0 + Lifetime + 1,
     Epoch0 + Lifetime + Leeway, Epoch0 + Lifetime + Leeway + 1}
\* The requests to the /protected scope that are in flight at once. Requests
\* share nothing but the clock and the secret, which they only read.
ReqIds == {1}

\* ------------------------------------------------------ the token as a text
\* One dot-separated segment of a token. enc says what the text is:
\*   "json"  base64url of a JSON object (fields)
\*   "junk"  base64url characters that do not decode to JSON
\*   "raw"   not base64url at all
\*   "empty" the empty text
\*   "mac"   base64url of HMAC_alg(key, msg), character i changed by delta[i]
Seg(enc, fields, alg, key, msg, delta) ==
    [enc |-> enc, fields |-> fields, alg |-> alg, key |-> key, msg |-> msg,
     delta |-> delta]
Plain(enc, fields) == Seg(enc, fields, "", "", <<>>, <<>>)
StrField(name, s) == [name |-> name, t |-> "str", s |-> s, n |-> 0]
NumField(name, n) == [name |-> name, t |-> "num", s |-> "", n |-> n]
HasField(fs, name, t) == \E i \in DOMAIN fs : fs[i].name = name /\ fs[i].t = t
GetField(fs, name) == fs[CHOOSE i \in DOMAIN fs : fs[i].name = name]

\* jsonwebtoken::Algorithm: the names Header deserializes.
AlgNames == {"HS256", "HS384", "HS512", "RS256"}
\* AlgorithmFamily::Hmac.
HmacAlgs == {"HS256", "HS384", "HS512"}

\* struct Claims { sub: String, exp: usize }
MkClaims(sub, exp) == [sub |-> sub, exp |-> exp]
NoClaims == MkClaims("", 0)

\* Header::default(): typ "JWT", alg HS256.
HeaderDefault == [typ |-> "JWT", alg |-> "HS256"]
\* Validation gone wrong: every HMAC algorithm is allowed.
ValidationDefault_anyhmac ==
    [algorithms |-> {"HS256", "HS384", "HS512"}, leeway |-> Leeway,
     validate_exp |-> TRUE, required_exp |-> TRUE]

\* Validation::default(): algorithms [HS256], leeway 60, validate_exp, exp required.
ValidationDefault ==
    [algorithms |-> {"HS256"}, leeway |-> Leeway, validate_exp |-> TRUE,
     required_exp |-> TRUE]

\* serde_json::to_vec then base64url (b64_encode_part).
HeaderToSeg(h) == Plain("json", <<StrField("typ", h.typ), StrField("alg", h.alg)>>)
ClaimsToSeg(c) == Plain("json", <<StrField("sub", c.sub), NumField("exp", c.exp)>>)

\* crypto::sign: the signature text of message under key and alg.
sign(message, key, alg) ==
    Seg("mac", <<>>, alg, key, message, [i \in 1..MacLen |-> 0])

\* verify gone wrong: only the first character of the signature is compared.
verify_prefix(signature, message, key, alg) ==
    LET want == sign(message, key, alg) IN
    /\ signature.enc = want.enc /\ signature.alg = want.alg
    /\ signature.key = want.key /\ signature.msg = want.msg
    /\ Len(signature.delta) >= 1 /\ signature.delta[1] = want.delta[1]

\* crypto::verify for an HMAC algorithm: sign again and compare the texts.
verify(signature, message, key, alg) == signature = sign(message, key, alg)

\* jsonwebtoken::encode.
encode(header, claims, key) ==
    LET h == HeaderToSeg(header)
        p == ClaimsToSeg(claims)
    IN  <<h, p, sign(<<h, p>>, key, header.alg)>>

Ok(claims) == [ok |-> TRUE, claims |-> claims, err |-> "none"]
Err(kind) == [ok |-> FALSE, claims |-> NoClaims, err |-> kind]

\* DecodedJwtPart / b64_decode + serde_json::from_slice: the JSON object of a segment.
DecodePart(seg) ==
    IF seg.enc = "raw" THEN [ok |-> FALSE, err |-> "Base64", fields |-> <<>>]
    ELSE IF seg.enc # "json" THEN [ok |-> FALSE, err |-> "Json", fields |-> <<>>]
    ELSE [ok |-> TRUE, err |-> "none", fields |-> seg.fields]

\* Header::from_encoded: alg is required and must name a known algorithm.
HeaderFromEncoded(seg) ==
    LET d == DecodePart(seg) IN
    IF ~d.ok THEN [ok |-> FALSE, err |-> d.err, alg |-> ""]
    ELSE IF ~HasField(d.fields, "alg", "str") THEN [ok |-> FALSE, err |-> "Json", alg |-> ""]
    ELSE IF GetField(d.fields, "alg").s \notin AlgNames
         THEN [ok |-> FALSE, err |-> "Json", alg |-> ""]
    ELSE [ok |-> TRUE, err |-> "none", alg |-> GetField(d.fields, "alg").s]

\* Deserialize for Claims: sub a string and exp a number, both required.
ClaimsFromFields(fs) ==
    IF HasField(fs, "sub", "str") /\ HasField(fs, "exp", "num")
    THEN Ok(MkClaims(GetField(fs, "sub").s, GetField(fs, "exp").n))
    ELSE Err("Json")

\* The split gone wrong: the first three segments, whatever follows them.
SplitToken_first3(token) ==
    IF Len(token) < 3
    THEN [ok |-> FALSE, header |-> Plain("empty", <<>>),
          payload |-> Plain("empty", <<>>), signature |-> Plain("empty", <<>>)]
    ELSE [ok |-> TRUE, header |-> token[1], payload |-> token[2],
          signature |-> token[3]]

\* expect_two!(token.rsplitn(2, '.')) twice: signature, payload and the header
\* text, which still holds a '.' when the token has more than three segments.
SplitToken(token) ==
    LET n == Len(token) IN
    IF n < 3 THEN [ok |-> FALSE, header |-> Plain("empty", <<>>),
                   payload |-> Plain("empty", <<>>), signature |-> Plain("empty", <<>>)]
    ELSE [ok |-> TRUE,
          header |-> IF n = 3 THEN token[1] ELSE Plain("raw", <<>>),
          payload |-> token[n - 1],
          signature |-> token[n]]

\* validate gone wrong: exp is not looked at.
validate_noexp(claims, options, t) == Ok(claims)

\* validation::validate: exp required, and rejected when exp < now - leeway.
validate(claims, options, t) ==
    IF options.validate_exp /\ claims.exp < t - options.leeway
    THEN Err("ExpiredSignature")
    ELSE Ok(claims)

\* decoding::verify_signature then the claims part of jsonwebtoken::decode.
decode(token, key, validation, t) ==
    LET s == SplitToken(token) IN
    IF ~s.ok THEN Err("InvalidToken")
    ELSE LET h == HeaderFromEncoded(s.header) IN
    IF ~h.ok THEN Err(h.err)
    ELSE IF h.alg \notin validation.algorithms THEN Err("InvalidAlgorithm")
    ELSE IF ~verify(s.signature, <<s.header, s.payload>>, key, h.alg)
         THEN Err("InvalidSignature")
    ELSE LET d == DecodePart(s.payload) IN
    IF ~d.ok THEN Err(d.err)
    ELSE LET c == ClaimsFromFields(d.fields) IN
    IF ~c.ok THEN c
    ELSE validate(c.claims, validation, t)

\* The secret gone wrong: no fallback, an unset variable gives the empty key.
ResolveSecret_nodefault(env) == IF env = Unset THEN "" ELSE env

\* env::var("JWT_SECRET").unwrap_or_else(|_| "secret".into())
ResolveSecret(env) == IF env = Unset THEN "secret" ELSE env

\* generate_jwt gone wrong: the 24 hours are subtracted.
generate_jwt_past(sub, t, env) ==
    LET secret == ResolveSecret(env)
        claims == MkClaims(sub, t - Lifetime)
    IN  [ok |-> TRUE, token |-> encode(HeaderDefault, claims, secret)]

\* generate_jwt gone wrong: the token lives one hour.
generate_jwt_hour(sub, t, env) ==
    LET secret == ResolveSecret(env)
        claims == MkClaims(sub, t + 3600)
    IN  [ok |-> TRUE, token |-> encode(HeaderDefault, claims, secret)]

\* auth.rs generate_jwt, at clock t with JWT_SECRET env: always Ok(token).
generate_jwt(sub, t, env) ==
    LET secret == ResolveSecret(env)
        claims == MkClaims(sub, t + Lifetime)
    IN  [ok |-> TRUE, token |-> encode(HeaderDefault, claims, secret)]

\* auth.rs validate_jwt, at clock t with JWT_SECRET env.
validate_jwt(token, t, env) ==
    decode(token, ResolveSecret(env), ValidationDefault, t)

\* jwt_validator gone wrong: Ok(req) in both arms.
jwt_validator_lenient(req, token, t, env) ==
    [ok |-> TRUE, req |-> req, status |-> 0, msg |-> ""]
\* jwt_validator gone wrong: the error's kind is put in the message.
jwt_validator_verbose(req, token, t, env) ==
    LET r == validate_jwt(token, t, env) IN
    IF r.ok THEN [ok |-> TRUE, req |-> req, status |-> 0, msg |-> ""]
    ELSE [ok |-> FALSE, req |-> req, status |-> 401, msg |-> r.err]
\* jwt_validator gone wrong: the request is handed back without its credential.
jwt_validator_strip(req, token, t, env) ==
    LET r == validate_jwt(token, t, env)
        bare == [req EXCEPT !.auth = [present |-> FALSE, token |-> <<>>]]
    IN  IF r.ok THEN [ok |-> TRUE, req |-> bare, status |-> 0, msg |-> ""]
        ELSE [ok |-> FALSE, req |-> bare, status |-> 401, msg |-> "Invalid token"]

\* auth.rs jwt_validator: what it returns for (req, credentials).
jwt_validator(req, token, t, env) ==
    LET r == validate_jwt(token, t, env) IN
    IF r.ok THEN [ok |-> TRUE, req |-> req, status |-> 0, msg |-> ""]
    ELSE [ok |-> FALSE, req |-> req, status |-> 401, msg |-> "Invalid token"]

\* ------------------------------------------------------------- handlers.rs
\* The first four characters of a token's text: base64url of the header,
\* which for a JSON header {"typ":... is "eyJ0".
TokenHead(token) ==
    IF token[1].enc = "json" THEN <<"e", "y", "J", "0">> ELSE <<"?", "?", "?", "?">>
\* A response string: its first four characters and the token it carries.
TokenBody(token) == [head |-> TokenHead(token), token |-> token]
\* "Failed to generate JWT"
FailedBody == [head |-> <<"F", "a", "i", "l">>, token |-> <<>>]
NoBody == [head |-> <<>>, token |-> <<>>]
\* str::starts_with
starts_with(body, pat) ==
    Len(pat) <= Len(body.head) /\ SubSeq(body.head, 1, Len(pat)) = pat

\* What a call of /get_jwt ends in.
NoCall == [st |-> "none", id |-> NoId, gen_ok |-> FALSE, status |-> 0, body |-> NoBody]

\* handlers.rs create_jwt_for_user for a User whose id is `id`.
create_jwt_for_user(id, t, env) ==
    IF id = NoId
    THEN \* info.id.clone().expect("REASON") panics
         [st |-> "panicked", id |-> id, gen_ok |-> FALSE, status |-> 0, body |-> NoBody]
    ELSE LET g == generate_jwt(id, t, env)
             response == IF g.ok THEN TokenBody(g.token) ELSE FailedBody
         IN  IF starts_with(response, <<"J", "W", "T", ":">>)
             THEN [st |-> "responded", id |-> id, gen_ok |-> g.ok, status |-> 200,
                   body |-> response]
             ELSE [st |-> "responded", id |-> id, gen_ok |-> g.ok, status |-> 500,
                   body |-> response]

\* ------------------------------------------------------ what clients present
NoCred == [present |-> FALSE, token |-> <<>>]
Bearer(token) == [present |-> TRUE, token |-> token]

\* A token put together by hand: header and payload segments signed by alg, key.
Craft(h, p, alg, key) == <<h, p, sign(<<h, p>>, key, alg)>>
\* Character i of the signature segment changed by d.
Tamper(token, i, d) == [token EXCEPT ![3].delta[i] = d]

JunkSeg == Plain("junk", <<>>)
RawSeg == Plain("raw", <<>>)
EmptySeg == Plain("empty", <<>>)
H256 == HeaderToSeg(HeaderDefault)
H384 == HeaderToSeg([typ |-> "JWT", alg |-> "HS384"])
HNone == HeaderToSeg([typ |-> "JWT", alg |-> "none"])
HNoAlg == Plain("json", <<StrField("typ", "JWT")>>)
\* A payload as generate_jwt("u1") at Epoch0 writes it.
PGood == ClaimsToSeg(MkClaims("u1", Epoch0 + Lifetime))
PNoExp == Plain("json", <<StrField("sub", "u1")>>)
PExpStr == Plain("json", <<StrField("sub", "u1"), StrField("exp", "never")>>)

\* Texts that are not three well-formed segments.
Malformed ==
    { <<JunkSeg>>,                                    \* "non-existent_token"
      <<H256, PGood>>,                                \* two segments
      Craft(H256, PGood, "HS256", "secret") \o <<JunkSeg>>,   \* four segments
      Craft(RawSeg, PGood, "HS256", "secret"),        \* header not base64url
      Craft(JunkSeg, PGood, "HS256", "secret"),       \* header not JSON
      Craft(HNoAlg, PGood, "HS256", "secret"),        \* header without alg
      Craft(H256, JunkSeg, "HS256", "secret"),        \* payload not JSON
      Craft(H256, RawSeg, "HS256", "secret"),         \* payload not base64url
      Craft(H256, PNoExp, "HS256", "secret"),         \* payload without exp
      Craft(H256, PExpStr, "HS256", "secret") }       \* exp not a number
\* Three well-formed segments naming another algorithm, or none.
OtherAlg ==
    { Craft(H384, PGood, "HS384", k) : k \in Keys } \cup
    { <<HNone, PGood, EmptySeg>>, Craft(HNone, PGood, "HS256", "secret") }
\* Well-formed HS256 tokens signed by someone who holds key k, and one signed
\* with the HS384 digest under an HS256 header.
Signed ==
    { Craft(H256, PGood, "HS256", k) : k \in Keys } \cup
    { Craft(H256, PGood, "HS384", "secret") }
Forged == Malformed \cup OtherAlg \cup Signed

\* ---------------------------------------------------------------- the state
VARIABLES
    now,         \* Utc::now(), epoch seconds
    jwt_secret,  \* the process's JWT_SECRET, or Unset
    issued,      \* the token the last successful /get_jwt handed out: [tok, sub, at, env]
    jwt_resp,    \* how the last call of /get_jwt ended
    reqs         \* the requests to the /protected scope, by slot

vars == <<now, jwt_secret, issued, jwt_resp, reqs>>

NoReq == [route |-> "", auth |-> NoCred]
NoOut == [ok |-> FALSE, req |-> NoReq, status |-> 0, msg |-> ""]
Idle ==
    [st |-> "idle", req |-> NoReq, cred |-> <<>>, vres |-> Err("none"), at |-> 0,
     out |-> NoOut, handler |-> "none", status |-> 0, body |-> ""]

Routes == {"/protected/users", "/protected/route"}
IssuedTokens == {i.tok : i \in issued}
\* Issued tokens with one signature character changed.
TamperedTokens ==
    {Tamper(t, i, d) : t \in IssuedTokens, i \in 1..MacLen, d \in 1..MaxDelta}
\* Every bearer credential a client may send.
Presentable == IssuedTokens \cup TamperedTokens \cup Forged

Init ==
    /\ now = Epoch0
    /\ jwt_secret \in EnvValues
    /\ issued = {}
    /\ jwt_resp = NoCall
    /\ reqs = [r \in ReqIds |-> Idle]

\* main.rs: dotenv().ok() as a process starts; requests in flight die with
\* the process that served them, tokens already handed out stay with clients.
LoadEnv(v) ==
    /\ jwt_secret' = v
    /\ reqs' = [r \in DOMAIN reqs |-> Idle]
    /\ UNCHANGED <<now, issued, jwt_resp>>

\* The wall clock moves on.
Tick(t) ==
    /\ t > now
    /\ now' = t
    /\ UNCHANGED <<jwt_secret, issued, jwt_resp, reqs>>

\* POST /get_jwt with a User whose id is `id`.
GetJwt(id) ==
    /\ LET c == create_jwt_for_user(id, now, jwt_secret) IN
       /\ jwt_resp' = c
       /\ issued' = IF c.st = "responded" /\ c.gen_ok
                    THEN {[tok |-> c.body.token, sub |-> id, at |-> now,
                           env |-> jwt_secret]}
                    ELSE issued
    /\ UNCHANGED <<now, jwt_secret, reqs>>

\* A request for a route of the /protected scope arrives.
Receive(r, route, auth) ==
    /\ reqs[r].st = "idle"
    /\ reqs' = [reqs EXCEPT ![r] =
                  [Idle EXCEPT !.st = "Unauthenticated",
                               !.req = [route |-> route, auth |-> auth]]]
    /\ UNCHANGED <<now, jwt_secret, issued, jwt_resp>>

\* HttpAuthentication::bearer: the BearerAuth extractor; without a bearer
\* credential the middleware answers 401 itself.
Extract(r) ==
    /\ reqs[r].st = "Unauthenticated"
    /\ LET q == reqs[r] IN
       reqs' = [reqs EXCEPT ![r] =
                  IF q.req.auth.present
                  THEN [q EXCEPT !.st = "Verifying", !.cred = q.req.auth.token]
                  ELSE [q EXCEPT !.st = "Rejected", !.status = 401]]
    /\ UNCHANGED <<now, jwt_secret, issued, jwt_resp>>

\* Validate gone wrong: the verdict is kept in one process-wide cell, and a
\* request validated while another verdict is still held gets that verdict.
Validate_shared(r) ==
    /\ reqs[r].st = "Verifying"
    /\ LET q == reqs[r]
           held == {x \in DOMAIN reqs : x # r /\ reqs[x].st \in {"Passed", "Rejected", "Authorized"}
                                       /\ reqs[x].req.auth.present}
           tok == IF held = {} THEN q.cred ELSE reqs[CHOOSE x \in held : TRUE].cred
           o == jwt_validator(q.req, tok, now, jwt_secret)
       IN  reqs' = [reqs EXCEPT ![r] =
                      [q EXCEPT !.st = IF o.ok THEN "Passed" ELSE "Rejected",
                                !.vres = validate_jwt(tok, now, jwt_secret),
                                !.at = now,
                                !.out = o,
                                !.status = o.status,
                                !.body = o.msg]]
    /\ UNCHANGED <<now, jwt_secret, issued, jwt_resp>>

\* The middleware calls jwt_validator(req, credentials) and turns
\* Err((error, req)) into req.error_response(error).
Validate(r) ==
    /\ reqs[r].st = "Verifying"
    /\ LET q == reqs[r]
           o == jwt_validator(q.req, q.cred, now, jwt_secret)
       IN  reqs' = [reqs EXCEPT ![r] =
                      [q EXCEPT !.st = IF o.ok THEN "Passed" ELSE "Rejected",
                                !.vres = validate_jwt(q.cred, now, jwt_secret),
                                !.at = now,
                                !.out = o,
                                !.status = o.status,
                                !.body = o.msg]]
    /\ UNCHANGED <<now, jwt_secret, issued, jwt_resp>>

\* handlers.rs get_all_users: the SELECT succeeds or fails.
get_all_users(r, db_ok) ==
    /\ reqs[r].st = "Passed"
    /\ reqs[r].out.req.route = "/protected/users"
    /\ reqs' = [reqs EXCEPT ![r] =
                  [@ EXCEPT !.st = "Authorized", !.handler = "get_all_users",
                            !.status = IF db_ok THEN 200 ELSE 500,
                            !.body = IF db_ok THEN "users" ELSE "Error getting users"]]
    /\ UNCHANGED <<now, jwt_secret, issued, jwt_resp>>

\* protected_route gone wrong: the handler also runs for a request the
\* middleware has already answered with 401.
protected_route_open(r) ==
    /\ reqs[r].st \in {"Passed", "Rejected"}
    /\ reqs[r].req.route = "/protected/route"
    /\ reqs' = [reqs EXCEPT ![r] =
                  [@ EXCEPT !.st = "Authorized", !.handler = "protected_route",
                            !.status = 200,
                            !.body = "Protected route, only with valid token."]]
    /\ UNCHANGED <<now, jwt_secret, issued, jwt_resp>>

\* handlers.rs protected_route.
protected_route(r) ==
    /\ reqs[r].st = "Passed"
    /\ reqs[r].out.req.route = "/protected/route"
    /\ reqs' = [reqs EXCEPT ![r] =
                  [@ EXCEPT !.st = "Authorized", !.handler = "protected_route",
                            !.status = 200,
                            !.body = "Protected route, only with valid token."]]
    /\ UNCHANGED <<now, jwt_secret, issued, jwt_resp>>

\* The response is sent and the request is gone.
Close(r) ==
    /\ reqs[r].st \in {"Authorized", "Rejected"}
    /\ reqs' = [reqs EXCEPT ![r] = Idle]
    /\ UNCHANGED <<now, jwt_secret, issued, jwt_resp>>

Next ==
    \/ \E v \in EnvValues : LoadEnv(v)
    \/ \E t \in Instants : Tick(t)
    \/ \E id \in Subjects \cup {NoId} : GetJwt(id)
    \/ \E r \in DOMAIN reqs, route \in Routes, a \in {NoCred} \cup {Bearer(t) : t \in Presentable} :
          Receive(r, route, a)
    \/ \E r \in DOMAIN reqs : Extract(r)
    \/ \E r \in DOMAIN reqs : Validate(r)
    \/ \E r \in DOMAIN reqs, db_ok \in BOOLEAN : get_all_users(r, db_ok)
    \/ \E r \in DOMAIN reqs : protected_route(r)
    \/ \E r \in DOMAIN reqs : Close(r)

Spec == Init /\ [][Next]_vars

\* ------------------------------------------- two requests served at a time
\* One process serving two requests of the /protected scope at once, on
\* separate workers, while /get_jwt issues tokens and the clock moves.
ConcSlots == {1, 2}
\* The clock is read before and after the issued token's 24 hours and leeway.
ConcInstants == {Epoch0 + Lifetime, Epoch0 + Lifetime + Leeway + 1}
\* What the two clients send: the issued token or a forged HS256 token.
ConcPresentable == IssuedTokens \cup Signed

InitConc ==
    /\ now = Epoch0
    /\ jwt_secret \in EnvValues
    /\ issued = {}
    /\ jwt_resp = NoCall
    /\ reqs = [r \in ConcSlots |-> Idle]

NextConc ==
    \/ \E t \in ConcInstants : Tick(t)
    \/ GetJwt("u1")
    \/ \E r \in DOMAIN reqs, route \in Routes, t \in ConcPresentable :
          Receive(r, route, Bearer(t))
    \/ \E r \in DOMAIN reqs : Extract(r)
    \/ \E r \in DOMAIN reqs : Validate(r)
    \/ \E r \in DOMAIN reqs, db_ok \in BOOLEAN : get_all_users(r, db_ok)
    \/ \E r \in DOMAIN reqs : protected_route(r)
    \/ \E r \in DOMAIN reqs : Close(r)

SpecConc == InitConc /\ [][NextConc]_vars

\* ------------------------------------------------ one process, run fairly
\* One process from start to stop: JWT_SECRET is read as it starts and the
\* process is not restarted.
NextRun ==
    \/ \E t \in ConcInstants : Tick(t)
    \/ \E id \in Subjects \cup {NoId} : GetJwt(id)
    \/ \E r \in DOMAIN reqs, route \in Routes, a \in {NoCred} \cup {Bearer(t) : t \in Presentable} :
          Receive(r, route, a)
    \/ \E r \in DOMAIN reqs : Extract(r)
    \/ \E r \in DOMAIN reqs : Validate(r)
    \/ \E r \in DOMAIN reqs, db_ok \in BOOLEAN : get_all_users(r, db_ok)
    \/ \E r \in DOMAIN reqs : protected_route(r)
    \/ \E r \in DOMAIN reqs : Close(r)

\* The actix runtime polls the future of every request it has accepted: the
\* extractor, jwt_validator and the route's handler each run once enabled.
\* Nothing obliges a client to send a request or the clock to be read.
Fairness ==
    \A r \in ReqIds :
       /\ WF_vars(Extract(r))
       /\ WF_vars(Validate(r))
       /\ WF_vars(\E db_ok \in BOOLEAN : get_all_users(r, db_ok))
       /\ WF_vars(protected_route(r))

SpecRun == Init /\ [][NextRun]_vars /\ Fairness

\* ------------------------------------------------------------ the properties
\* Slot q has been through jwt_validator.
Validated(q) ==
    q.st \in {"Passed", "Authorized"} \/ (q.st = "Rejected" /\ q.req.auth.present)
\* The exp written in the payload of an issued token.
TokenExp(token) == GetField(token[2].fields, "exp").n
\* The secret a process with JWT_SECRET = env is documented to use.
SecretOf(env) == IF env = Unset THEN "secret" ELSE env

\* Three segments: a JSON header naming a known algorithm, a JSON payload with
\* sub and exp, and a signature text.
WellFormed(token) ==
    /\ Len(token) = 3
    /\ token[1].enc = "json" /\ HasField(token[1].fields, "alg", "str")
    /\ GetField(token[1].fields, "alg").s \in AlgNames
    /\ token[2].enc = "json" /\ HasField(token[2].fields, "sub", "str")
    /\ HasField(token[2].fields, "exp", "num")
    /\ token[3].enc = "mac"

\* The calls of generate_jwt that return this token: [tok, sub, at, env].
Origins(token) ==
    IF ~WellFormed(token) THEN {}
    ELSE {i \in {[tok |-> token, sub |-> GetField(token[2].fields, "sub").s,
                  at |-> TokenExp(token) - Lifetime, env |-> e] : e \in EnvValues} :
             generate_jwt(i.sub, i.at, i.env).token = token}

\* C1: a token that generate_jwt(s) returned, validated at the instant it was
\* issued and under the same JWT_SECRET, is accepted with Claims.sub = s; the
\* empty subject included.
C1_RoundTrip ==
    /\ \A i \in issued :
          (i.at = now /\ i.env = jwt_secret) =>
             LET v == validate_jwt(i.tok, now, jwt_secret)
             IN  v.ok /\ v.claims.sub = i.sub
    /\ \A r \in ReqIds : \A i \in Origins(reqs[r].cred) :
          (Validated(reqs[r]) /\ reqs[r].cred = i.tok /\ reqs[r].at = i.at
             /\ i.env = jwt_secret) =>
             reqs[r].vres.ok /\ reqs[r].vres.claims.sub = i.sub
\* An empty-subject token went through jwt_validator at its issue instant.
C1_Witness ==
    \E r \in ReqIds : \E i \in issued :
       /\ i.sub = "" /\ i.env = jwt_secret
       /\ Validated(reqs[r]) /\ reqs[r].cred = i.tok /\ reqs[r].at = i.at
       /\ reqs[r].vres = Ok(MkClaims("", i.at + Lifetime))

\* C2 as stated: an issued token validated at any instant after its exp is
\* rejected.
C2_RejectedRightAfterExp ==
    \A r \in ReqIds : \A i \in issued :
       (Validated(reqs[r]) /\ reqs[r].cred = i.tok /\ reqs[r].at > TokenExp(i.tok))
          => ~reqs[r].vres.ok
\* C2 (amended): an issued token validated at an instant later than exp plus
\* the 60 seconds of leeway is rejected, even under the secret that signed it.
C2_RejectedAfterLeeway ==
    /\ \A r \in ReqIds : \A i \in Origins(reqs[r].cred) :
          (Validated(reqs[r]) /\ reqs[r].cred = i.tok
             /\ reqs[r].at > TokenExp(i.tok) + Leeway)
             => ~reqs[r].vres.ok
    /\ \A i \in issued : \A t \in Instants : \A e \in EnvValues :
          t > TokenExp(i.tok) + Leeway => ~validate_jwt(i.tok, t, e).ok
\* A correctly signed issued token was rejected because it had expired.
C2_Witness ==
    \E r \in ReqIds : \E i \in issued :
       /\ Validated(reqs[r]) /\ reqs[r].cred = i.tok
       /\ SecretOf(i.env) = SecretOf(jwt_secret)
       /\ reqs[r].at > TokenExp(i.tok) + Leeway
       /\ reqs[r].vres = Err("ExpiredSignature")

\* C3: a handler of the /protected scope has run for a request only if
\* validate_jwt accepted the request's bearer token; a request whose token was
\* refused, or that carried none, is answered 401 and no handler has run.
C3_HandlerOnlyAfterOk ==
    \A r \in ReqIds :
       LET q == reqs[r] IN
       /\ q.handler # "none" =>
             (q.st = "Authorized" /\ q.req.auth.present /\ q.vres.ok
                /\ q.vres = validate_jwt(q.req.auth.token, q.at, jwt_secret))
       /\ q.st = "Passed" => q.vres.ok
       /\ (Validated(q) /\ ~q.vres.ok) =>
             (q.st = "Rejected" /\ q.status = 401 /\ q.handler = "none")
       /\ (q.st = "Rejected" /\ ~q.req.auth.present) =>
             (q.status = 401 /\ q.handler = "none")
\* A well-formed, correctly signed but expired token was refused with 401 and
\* no handler ran.
C3_Witness ==
    \E r \in ReqIds : \E i \in issued :
       /\ reqs[r].st = "Rejected" /\ reqs[r].cred = i.tok
       /\ reqs[r].vres.err = "ExpiredSignature"
       /\ reqs[r].status = 401 /\ reqs[r].handler = "none"

\* C4: a text that is not a well-formed three-segment signed token is refused
\* by validate_jwt with an Err value, whatever the clock and the secret.
C4_MalformedRejected ==
    \A r \in ReqIds :
       (Validated(reqs[r]) /\ ~WellFormed(reqs[r].cred)) =>
          (~reqs[r].vres.ok /\ reqs[r].vres.err # "none")
\* "non-existent_token" went through jwt_validator and was refused.
C4_Witness ==
    \E r \in ReqIds :
       /\ Validated(reqs[r]) /\ reqs[r].cred = <<JunkSeg>>
       /\ reqs[r].vres = Err("InvalidToken")

\* The token is one generate_jwt returns but for one changed character of its
\* signature segment.
TamperedIssued(token) ==
    /\ Len(token) = 3 /\ token[3].enc = "mac" /\ Len(token[3].delta) = MacLen
    /\ Cardinality({k \in 1..MacLen : token[3].delta[k] # 0}) = 1
    /\ Origins([token EXCEPT ![3].delta = [k \in 1..MacLen |-> 0]]) # {}

\* C5: an issued token with one character of its signature segment changed
\* is refused under the secret and clock under which the token is accepted.
C5_TamperedRejected ==
    /\ \A i \in issued : \A k \in 1..MacLen : \A d \in 1..MaxDelta :
          validate_jwt(i.tok, now, jwt_secret).ok =>
             ~validate_jwt(Tamper(i.tok, k, d), now, jwt_secret).ok
    /\ \A r \in ReqIds :
          (Validated(reqs[r]) /\ TamperedIssued(reqs[r].cred)) => ~reqs[r].vres.ok
\* A token whose last signature character was changed was refused at an
\* instant and secret that accept the token itself.
C5_Witness ==
    \E r \in ReqIds : \E i \in issued :
       /\ Validated(reqs[r]) /\ reqs[r].cred = Tamper(i.tok, MacLen, 1)
       /\ TamperedIssued(reqs[r].cred)
       /\ validate_jwt(i.tok, reqs[r].at, jwt_secret).ok
       /\ reqs[r].vres = Err("InvalidSignature")

\* Well-formed, HS256 in the header and signed with HS256 under key k.
SignedBy(token, k) ==
    /\ WellFormed(token)
    /\ GetField(token[1].fields, "alg").s = "HS256"
    /\ token[3] = sign(<<token[1], token[2]>>, k, "HS256")

\* C6: a well-formed, unexpired HS256 token signed under key k is accepted
\* exactly when the verifying process's secret is k, where a process with
\* JWT_SECRET unset uses "secret"; an issued token is signed with the
\* issuing process's secret.
C6_SecretDecides ==
    /\ \A i \in issued : SignedBy(i.tok, SecretOf(i.env))
    /\ \A r \in ReqIds : \A k \in Keys :
          (Validated(reqs[r]) /\ SignedBy(reqs[r].cred, k)
             /\ reqs[r].at <= TokenExp(reqs[r].cred))
             => (reqs[r].vres.ok <=> SecretOf(jwt_secret) = k)
\* A token issued by a process without JWT_SECRET was refused, unexpired, by a
\* process whose JWT_SECRET is set to something else.
C6_Witness ==
    \E r \in ReqIds : \E i \in issued :
       /\ i.env = Unset /\ jwt_secret = "k1"
       /\ Validated(reqs[r]) /\ reqs[r].cred = i.tok
       /\ reqs[r].at <= TokenExp(i.tok)
       /\ reqs[r].vres = Err("InvalidSignature")

\* C7: whatever made validate_jwt refuse a token, jwt_validator returns the
\* same error, 401 with the message "Invalid token", and the response is that.
C7_OneRejection ==
    \A r \in ReqIds :
       LET q == reqs[r] IN
       Validated(q) =>
          /\ q.vres.ok => (q.out.ok /\ q.out.status = 0 /\ q.out.msg = "")
          /\ ~q.vres.ok =>
                (~q.out.ok /\ q.out.status = 401 /\ q.out.msg = "Invalid token"
                   /\ q.status = 401 /\ q.body = "Invalid token")
\* An expired token was refused while the texts a client can present are
\* refused for at least four different reasons.
C7_Witness ==
    /\ \E r \in ReqIds :
          /\ Validated(reqs[r]) /\ reqs[r].vres.err = "ExpiredSignature"
          /\ reqs[r].body = "Invalid token"
    /\ Cardinality({validate_jwt(g, now, jwt_secret).err : g \in Presentable}
                      \ {"none"}) >= 4

\* C8: the step of jwt_validator hands back the request it was given, in
\* Ok(req) and in Err((error, req)) alike, and changes neither the request,
\* its credential nor any other state.
C8_RequestUnchanged ==
    [][\A r \in ReqIds :
          (reqs[r].st = "Verifying" /\ reqs'[r].st \in {"Passed", "Rejected"}) =>
             /\ reqs'[r].out.req = reqs[r].req
             /\ reqs'[r].req = reqs[r].req
             /\ reqs'[r].cred = reqs[r].cred
             /\ reqs'[r].handler = "none"
             /\ UNCHANGED <<now, jwt_secret, issued, jwt_resp>>]_vars
\* jwt_validator has returned Err with the request it was given.
C8_Witness ==
    \E r \in ReqIds :
       /\ reqs[r].st = "Rejected" /\ reqs[r].req.auth.present
       /\ ~reqs[r].out.ok /\ reqs[r].out.req = reqs[r].req
       /\ reqs[r].out.req.auth.token # <<>>

\* C9 as stated: /get_jwt answers 200 with the token whenever generate_jwt
\* returned Ok, and 500 only when it returned an error.
C9_OkGives200 ==
    jwt_resp.st = "responded" =>
       /\ jwt_resp.gen_ok => (jwt_resp.status = 200 /\ jwt_resp.body.token # <<>>)
       /\ jwt_resp.status = 500 => ~jwt_resp.gen_ok

\* The algorithm a token's header names, "" when it names none.
HeaderAlg(token) ==
    IF Len(token) >= 1 /\ HasField(token[1].fields, "alg", "str")
    THEN GetField(token[1].fields, "alg").s ELSE ""

\* C10: validate_jwt accepts only tokens whose header names HS256; a token
\* that names another algorithm, or none, is refused even when its signature
\* is the one that algorithm gives under the verifier's own secret.
C10_OnlyHS256 ==
    \A r \in ReqIds :
       /\ (Validated(reqs[r]) /\ HeaderAlg(reqs[r].cred) # "HS256") => ~reqs[r].vres.ok
       /\ (Validated(reqs[r]) /\ reqs[r].vres.ok) => HeaderAlg(reqs[r].cred) = "HS256"
\* An unexpired token with an HS384 header and the HS384 signature under the
\* verifier's secret was refused for its algorithm.
C10_Witness ==
    \E r \in ReqIds :
       /\ Validated(reqs[r])
       /\ reqs[r].cred = Craft(H384, PGood, "HS384", SecretOf(jwt_secret))
       /\ reqs[r].at <= Epoch0 + Lifetime
       /\ reqs[r].vres = Err("InvalidAlgorithm")

\* C11: the token generate_jwt returns at clock instant t carries
\* exp = t + 24 hours (t + 86400 seconds), whatever the subject and JWT_SECRET.
C11_ExpIsNowPlusDay ==
    /\ \A i \in issued : TokenExp(i.tok) = i.at + 24 * 60 * 60
    /\ \A s \in Subjects : \A e \in EnvValues :
          TokenExp(generate_jwt(s, now, e).token) = now + 24 * 60 * 60
\* /get_jwt has issued a token after the clock moved, under a configured
\* secret, and the token carries the issue instant plus 86400.
C11_Witness ==
    \E i \in issued :
       /\ i.at > Epoch0 /\ i.env = "k1" /\ i.sub = ""
       /\ TokenExp(i.tok) = i.at + 86400

\* C14 as stated: every call of /get_jwt with a body that deserializes as a
\* User ends in an HTTP response, a User without id included; none panics.
C14_AlwaysResponds ==
    jwt_resp.st # "none" => (jwt_resp.st = "responded" /\ jwt_resp.status # 0)

\* C12: with two requests in flight and tokens being issued in between, in
\* any interleaving, the verdict every validated request holds is the one
\* validate_jwt (and jwt_validator) gives alone for that request's own token,
\* the clock value it read and the process's secret; no step of another
\* request or of /get_jwt changes it.
C12_Independent ==
    \A r \in DOMAIN reqs :
       Validated(reqs[r]) =>
          /\ reqs[r].cred = reqs[r].req.auth.token
          /\ reqs[r].vres = validate_jwt(reqs[r].cred, reqs[r].at, jwt_secret)
          /\ reqs[r].out = jwt_validator(reqs[r].req, reqs[r].cred, reqs[r].at, jwt_secret)
\* Two requests with different tokens are both past validation, one accepted
\* and then one rejected at a later clock value, and a token was issued after
\* the first verdict.
C12_Witness ==
    \E r1, r2 \in DOMAIN reqs :
       /\ r1 # r2
       /\ Validated(reqs[r1]) /\ Validated(reqs[r2])
       /\ reqs[r1].cred # reqs[r2].cred
       /\ reqs[r1].vres.ok /\ ~reqs[r2].vres.ok
       /\ reqs[r1].at < reqs[r2].at
       /\ \E i \in issued : i.at > reqs[r1].at

\* C13: a request that enters verification eventually reaches Authorized (its
\* handler has run) or Rejected (401); a rejected request never gets its
\* handler and an authorized one is never rejected, each only leaves by being
\* closed; a closed slot keeps nothing of the request, and the verdict of
\* every request is validate_jwt computed anew on its own token.
C13_RequestMachine ==
    /\ \A r \in ReqIds :
          (reqs[r].st = "Verifying") ~> (reqs[r].st \in {"Authorized", "Rejected"})
    /\ [][\A r \in ReqIds :
            /\ reqs[r].st = "Verifying" => reqs'[r].st \in {"Verifying", "Passed", "Rejected"}
            /\ reqs[r].st = "Passed" => reqs'[r].st \in {"Passed", "Authorized"}
            /\ reqs[r].st \in {"Authorized", "Rejected"} => reqs'[r] \in {reqs[r], Idle}]_vars
    /\ [](\A r \in ReqIds :
            /\ reqs[r].st = "idle" => reqs[r] = Idle
            /\ reqs[r].st = "Authorized" =>
                  reqs[r].handler # "none" /\ reqs[r].out.ok /\ reqs[r].status # 401
            /\ reqs[r].st = "Rejected" =>
                  reqs[r].handler = "none" /\ ~reqs[r].out.ok /\ reqs[r].status = 401
            /\ Validated(reqs[r]) =>
                  reqs[r].out.ok = validate_jwt(reqs[r].req.auth.token, reqs[r].at, jwt_secret).ok)
\* The token /get_jwt issued, which validate_jwt accepts at its issue instant,
\* is presented after its 24 hours and leeway and that request ends Rejected
\* with 401.
C13_Witness ==
    \E r \in ReqIds :
       /\ reqs[r].st = "Rejected" /\ reqs[r].status = 401
       /\ reqs[r].cred \in IssuedTokens
       /\ reqs[r].vres = Err("ExpiredSignature")
       /\ validate_jwt(reqs[r].cred, TokenExp(reqs[r].cred) - Lifetime, jwt_secret).ok

====
